---- MODULE Spec2Model ----
(***************************************************************************)
(* State-machine model of the ARScene component                            *)
(* (src/src/components/ARScene.tsx): the AR support probe, the permission  *)
(* gate (requestPermissions), the session effect with its asset load,      *)
(* startAR, the select/end listeners and the per-frame callback onXRFrame. *)
(*                                                                         *)
(* JavaScript runs each callback to completion, so one action is one       *)
(* callback or one continuation between two awaits.  The host (browser     *)
(* WebXR / media devices / GLTFLoader) is the environment: every promise   *)
(* it hands out may resolve or reject, in any order.                       *)
(***************************************************************************)
EXTENDS Integers, Sequences, FiniteSets, TLC

\* ---------------------------------------------------------------- bounds
\* How many times the user may click a "Grant Permissions" button.
MaxInvocations == 2
\* How many tracks a camera stream may carry.
MaxTracks == 2
\* How many frames the session delivers.
MaxFrames == 2
\* How many select events the session fires.
MaxSelects == 2
\* How many end events the session fires.
MaxEnds == 2
\* How many hit-test results one frame may carry.
MaxHits == 1

\* ------------------------------------------------------------ data values
\* errorMessage's initial value (useState<string | null>(null)).
Null == <<>>

\* `model` before the load completes (let model: THREE.Object3D | null = null).
NullModel ==
    [loaded |-> FALSE, scale |-> <<>>, visible |-> FALSE, position |-> <<>>,
     quaternion |-> <<>>]

\* JavaScript's String(error) for an Error / DOMException
\* (Error.prototype.toString): the message alone when the name is empty, the
\* name alone when the message is empty, else "<name>: <message>".
\* Texts are sequences of non-empty string tokens, `+` is their concatenation.
ErrorToString(error) ==
    IF error.name = ""
    THEN (IF error.message = "" THEN <<>> ELSE <<error.message>>)
    ELSE IF error.message = "" THEN <<error.name>>
    ELSE <<error.name, ": ", error.message>>

\* Whether text `part` occurs in text `whole`.
Contains(whole, part) ==
    \E i \in 1..(Len(whole) - Len(part) + 1) :
        SubSeq(whole, i, i + Len(part) - 1) = part

\* What the host may reject getUserMedia with.
MediaErrors ==
    { [name |-> "NotAllowedError", message |-> "Permission denied"],
      [name |-> "NotFoundError", message |-> ""] }

\* What the host may reject requestSession / requestReferenceSpace /
\* requestHitTestSource with.
XRErrors ==
    { [name |-> "NotSupportedError", message |-> "session not supported"],
      [name |-> "", message |-> "boom"] }

\* What a session request may resolve with instead of a session.
Nothings == {"null", "undefined"}

\* session.end() on a session request that resolved with `nothing`: the
\* TypeError of the engine (the wording is V8's).
NoSessionTypeError(nothing) ==
    [name |-> "TypeError",
     message |-> IF nothing = "null"
                 THEN "Cannot read properties of null (reading 'end')"
                 ELSE "Cannot read properties of undefined (reading 'end')"]

\* navigator.mediaDevices.getUserMedia(...) on a host without
\* navigator.mediaDevices: the TypeError of the engine (the wording is V8's).
NoMediaDevicesTypeError ==
    [name |-> "TypeError",
     message |-> "Cannot read properties of undefined (reading 'getUserMedia')"]

\* throw new Error("WebXR API is not available.")
XRUnavailableError ==
    [name |-> "Error", message |-> "WebXR API is not available."]

\* throw new Error("AR session failed to start")
SessionFailedError ==
    [name |-> "Error", message |-> "AR session failed to start"]

\* What the asset loader may fail with (ErrorEvent.message).
LoadErrorMessages == { "404 Not Found" }

\* Poses the hit test may report: position (x, y, z), orientation (x, y, z, w).
HitPoses ==
    { [position |-> <<1, 0, -2>>, orientation |-> <<0, 1, 0, 0>>],
      [position |-> <<0, -1, -1>>, orientation |-> <<0, 0, 0, 1>>] }

\* hitTestResults[0].getPose(referenceSpace) may also return null.
NullPose == [position |-> <<>>, orientation |-> <<>>]

\* The hit-test result lists one frame may carry.
HitResultLists ==
    UNION { [1..n -> HitPoses \cup {NullPose}] : n \in 0..MaxHits }

\* A freshly loaded THREE.Object3D has position (0,0,0), quaternion (0,0,0,1).
\* model.scale.set(0.2, 0.2, 0.2) is kept in tenths.
ScaleTenths == 2

VARIABLES
    \* environment
    navigatorXR,          \* whether navigator.xr exists
    mediaDevices,         \* whether navigator.mediaDevices exists
    xrSupported,          \* what isSessionSupported("immersive-ar") resolves
    \* component state (useState)
    mounted,
    arSupported,
    sessionStarted,
    permissionGranted,
    showPermissionPopup,
    errorMessage,
    \* checkARSupport
    probePc,              \* "pending" | "done"
    \* requestPermissions invocations
    gate,
    \* session effect
    renderer,             \* "none" | "attached" | "disposed"
    loadState,            \* "idle" | "loading" | "loaded" | "failed"
    model,
    sceneAdds,            \* scene.add(model) calls
    \* startAR
    startPc,
    ctrlRequests,         \* requestSession calls of startAR
    session,              \* startAR's session: "none" | "active" | "ended"
    xrBound,              \* renderer.xr.setSession(session) was called
    hitTestSource,        \* "unset" | "undefined" | "active" | "cancelled"
    listeners,            \* event types with a registered listener
    rafPending,           \* frame callbacks registered and not yet run
    \* counters of what happened
    cancelCount,          \* hitTestSource.cancel() calls
    endCount,             \* end events fired by the session
    selectCount,          \* select events fired by the session
    frameCount,           \* onXRFrame invocations
    renderCount,          \* renderer.render calls of onXRFrame
    transformWrites       \* model.position.set / model.quaternion.set pairs

envVars == <<navigatorXR, mediaDevices, xrSupported>>
uiVars == <<arSupported, sessionStarted, permissionGranted, showPermissionPopup>>
effectVars == <<renderer, loadState, model, sceneAdds>>
startVars == <<startPc, ctrlRequests, session, xrBound, hitTestSource, listeners,
               rafPending>>
countVars == <<cancelCount, endCount, selectCount, frameCount, renderCount,
               transformWrites>>
vars == <<envVars, mounted, uiVars, errorMessage, probePc, gate, effectVars,
          startVars, countVars>>

\* One requestPermissions invocation that has not been started: its position,
\* the arSupported its closure captured, the camera streams it acquired, the
\* tracks of them still live, the session requests it issued, the sessions it
\* acquired and the sessions it ended.
IdleInvocation ==
    [pc |-> "idle", arSupported |-> FALSE, streams |-> 0, liveTracks |-> 0,
     requests |-> 0, sessions |-> 0, ended |-> 0]

\* State after the first render and the mount effect: checkARSupport() has run
\* to its first await, or to its end when navigator.xr is absent.
Init ==
    /\ navigatorXR \in BOOLEAN
    /\ mediaDevices \in BOOLEAN
    /\ xrSupported \in BOOLEAN
    /\ mounted = TRUE
    /\ arSupported = FALSE
    /\ sessionStarted = FALSE
    /\ permissionGranted = FALSE
    /\ showPermissionPopup = TRUE
    /\ errorMessage = Null
    /\ probePc = IF navigatorXR THEN "pending" ELSE "done"
    /\ gate = [i \in 1..MaxInvocations |-> IdleInvocation]
    /\ renderer = "none"
    /\ loadState = "idle"
    /\ model = NullModel
    /\ sceneAdds = 0
    /\ startPc = "idle"
    /\ ctrlRequests = 0
    /\ session = "none"
    /\ xrBound = FALSE
    /\ hitTestSource = "unset"
    /\ listeners = {}
    /\ rafPending = 0
    /\ cancelCount = 0
    /\ endCount = 0
    /\ selectCount = 0
    /\ frameCount = 0
    /\ renderCount = 0
    /\ transformWrites = 0

\* ------------------------------------------------------------- rendering
\* The JSX of the component: which controls the current state shows.
UnsupportedMessageShown == mounted /\ ~arSupported
InlineGrantButtonShown == mounted /\ arSupported /\ ~permissionGranted
StartARButtonShown ==
    mounted /\ arSupported /\ permissionGranted /\ ~sessionStarted
PopupGrantButtonShown == mounted /\ showPermissionPopup
ErrorPopupShown == mounted /\ errorMessage # Null
GrantPermissionsShown == InlineGrantButtonShown \/ PopupGrantButtonShown

\* ------------------------------------------------------- AR support probe
\* checkARSupport, after `await navigator.xr.isSessionSupported(...)`:
\* setArSupported(supported).
SetArSupported(supported) == supported

\* The session effect's guard (its deps are [sessionStarted, arSupported]).
SessionEffectRuns(started, supported) == started /\ mounted /\ supported

\* startAR up to its first await: the navigator.xr test and the session request.
StartARCall ==
    IF ~navigatorXR
    THEN /\ startPc' = "failed"
         /\ errorMessage' =
                <<"Failed to start AR session: ">> \o ErrorToString(XRUnavailableError)
         /\ ctrlRequests' = ctrlRequests
    ELSE /\ startPc' = "requestSession"
         /\ ctrlRequests' = ctrlRequests + 1
         /\ errorMessage' = errorMessage

\* The body of the session effect: scene, camera, renderer attached to the
\* mount target, light, loader.load started, startAR() called.
RunSessionEffect ==
    /\ renderer' = "attached"
    /\ loadState' = "loading"
    /\ UNCHANGED <<model, sceneAdds>>
    /\ StartARCall
    /\ UNCHANGED <<session, xrBound, hitTestSource, listeners, rafPending>>

ProbeResolved ==
    /\ probePc = "pending"
    /\ probePc' = "done"
    /\ arSupported' = SetArSupported(xrSupported)
    /\ IF SessionEffectRuns(sessionStarted, arSupported') /\ arSupported' # arSupported
       THEN RunSessionEffect
       ELSE UNCHANGED <<errorMessage, effectVars, startVars>>
    /\ UNCHANGED <<envVars, mounted, sessionStarted, permissionGranted,
                   showPermissionPopup, gate, countVars>>

\* ------------------------------------------------------- permission gate
\* The index of the next invocation to start (invocations start in order).
NextInvocation ==
    IF \E i \in 1..MaxInvocations : gate[i].pc = "idle"
    THEN CHOOSE i \in 1..MaxInvocations :
             /\ gate[i].pc = "idle"
             /\ \A j \in 1..(i - 1) : gate[j].pc # "idle"
    ELSE 0

\* Mutant of StopTracks: the first track of the stream is left running.
StopTracksSkipsFirst(n) == n - 1

\* stream.getTracks().forEach(track => track.stop()): how many of the
\* stream's n tracks are stopped.
StopTracks(n) == n

\* Mutant of EndThrowawaySession: the acquired session is never ended.
EndThrowawaySessionForgotten(acquired) == 0

\* The session of requestPermissions once acquired: session.end().
\* Gives how many of the acquired sessions are ended.
EndThrowawaySession(acquired) == acquired

\* Mutant of GateRequestsSession: the test reads the current arSupported, not
\* the one the invocation's closure captured.
GateRequestsSessionCurrent(inv) == navigatorXR /\ arSupported

\* `if (navigator.xr && arSupported)` of requestPermissions, on the captured
\* arSupported.
GateRequestsSession(inv) == navigatorXR /\ inv.arSupported

\* The success tail of requestPermissions.
GateGranted ==
    /\ permissionGranted' = TRUE
    /\ showPermissionPopup' = FALSE
    /\ UNCHANGED <<arSupported, sessionStarted, errorMessage>>

\* Mutant of GateCatch: the failure also takes the permission back.
GateCatchRevokes(error) ==
    /\ errorMessage' = <<"Error requesting permissions: ">> \o ErrorToString(error)
    /\ permissionGranted' = FALSE
    /\ UNCHANGED <<arSupported, sessionStarted, showPermissionPopup>>

\* Mutant of GateCatch: the failure also dismisses the permission pop-up.
GateCatchHidesPopup(error) ==
    /\ errorMessage' = <<"Error requesting permissions: ">> \o ErrorToString(error)
    /\ showPermissionPopup' = FALSE
    /\ UNCHANGED <<arSupported, sessionStarted, permissionGranted>>

\* The catch block of requestPermissions.
GateCatch(error) ==
    /\ errorMessage' = <<"Error requesting permissions: ">> \o ErrorToString(error)
    /\ UNCHANGED uiVars

\* A click on either "Grant Permissions" button: requestPermissions runs to
\* `await getUserMedia(...)`.  The handler is the closure of the last render,
\* so it keeps the arSupported of the moment of the click.  Without
\* navigator.mediaDevices the call itself throws inside the try, and the catch
\* block runs in the click's own step: no camera request is made.
ClickGrantPermissions ==
    /\ GrantPermissionsShown
    /\ NextInvocation # 0
    /\ IF mediaDevices
       THEN /\ gate' = [gate EXCEPT ![NextInvocation] =
                           [@ EXCEPT !.pc = "getUserMedia",
                                     !.arSupported = arSupported]]
            /\ UNCHANGED <<uiVars, errorMessage>>
       ELSE /\ gate' = [gate EXCEPT ![NextInvocation] =
                           [@ EXCEPT !.pc = "failed",
                                     !.arSupported = arSupported]]
            /\ GateCatch(NoMediaDevicesTypeError)
    /\ UNCHANGED <<envVars, mounted, probePc, effectVars, startVars, countVars>>

\* getUserMedia resolved with a stream of n tracks.
GateMediaResolved(i, n) ==
    /\ gate[i].pc = "getUserMedia"
    /\ LET got == [gate[i] EXCEPT !.streams = @ + 1,
                                  !.liveTracks = @ + n - StopTracks(n)]
       IN  IF GateRequestsSession(gate[i])
           THEN /\ gate' = [gate EXCEPT ![i] =
                               [got EXCEPT !.pc = "requestSession",
                                           !.requests = @ + 1]]
                /\ UNCHANGED <<uiVars, errorMessage>>
           ELSE /\ gate' = [gate EXCEPT ![i] = [got EXCEPT !.pc = "done"]]
                /\ GateGranted
    /\ UNCHANGED <<envVars, mounted, probePc, effectVars, startVars, countVars>>

GateMediaRejected(i, error) ==
    /\ gate[i].pc = "getUserMedia"
    /\ gate' = [gate EXCEPT ![i].pc = "failed"]
    /\ GateCatch(error)
    /\ UNCHANGED <<envVars, mounted, probePc, effectVars, startVars, countVars>>

\* requestSession resolved with a session: it is ended at once.
GateSessionResolved(i) ==
    /\ gate[i].pc = "requestSession"
    /\ gate' = [gate EXCEPT ![i] =
                   [@ EXCEPT !.pc = "done", !.sessions = @ + 1,
                             !.ended = @ + EndThrowawaySession(1)]]
    /\ GateGranted
    /\ UNCHANGED <<envVars, mounted, probePc, effectVars, startVars, countVars>>

\* requestSession resolved with nothing: session.end() throws a TypeError.
GateSessionNothing(i, nothing) ==
    /\ gate[i].pc = "requestSession"
    /\ gate' = [gate EXCEPT ![i].pc = "failed"]
    /\ GateCatch(NoSessionTypeError(nothing))
    /\ UNCHANGED <<envVars, mounted, probePc, effectVars, startVars, countVars>>

GateSessionRejected(i, error) ==
    /\ gate[i].pc = "requestSession"
    /\ gate' = [gate EXCEPT ![i].pc = "failed"]
    /\ GateCatch(error)
    /\ UNCHANGED <<envVars, mounted, probePc, effectVars, startVars, countVars>>

\* The error pop-up's Close button.
CloseError ==
    /\ ErrorPopupShown
    /\ errorMessage' = Null
    /\ UNCHANGED <<envVars, mounted, uiVars, probePc, gate, effectVars,
                   startVars, countVars>>

\* ------------------------------------------------- session effect: entry
\* The "Start AR" button: setSessionStarted(true); the re-render runs the
\* session effect.
ClickStartAR ==
    /\ StartARButtonShown
    /\ sessionStarted' = TRUE
    /\ IF SessionEffectRuns(sessionStarted', arSupported)
       THEN RunSessionEffect
       ELSE UNCHANGED <<errorMessage, effectVars, startVars>>
    /\ UNCHANGED <<envVars, mounted, arSupported, permissionGranted,
                   showPermissionPopup, probePc, gate, countVars>>

\* ----------------------------------------------------------- asset load
\* Mutant of LoadedModel: the model is not hidden when it is added.
LoadedModelVisible ==
    [loaded |-> TRUE,
     scale |-> <<ScaleTenths, ScaleTenths, ScaleTenths>>,
     visible |-> TRUE,
     position |-> <<0, 0, 0>>,
     quaternion |-> <<0, 0, 0, 1>>]

\* gltf.scene as the onLoad callback leaves it: scaled, hidden.
LoadedModel ==
    [loaded |-> TRUE,
     scale |-> <<ScaleTenths, ScaleTenths, ScaleTenths>>,
     visible |-> FALSE,
     position |-> <<0, 0, 0>>,
     quaternion |-> <<0, 0, 0, 1>>]

\* loader.load's onLoad callback.
LoadResolved ==
    /\ loadState = "loading"
    /\ loadState' = "loaded"
    /\ model' = LoadedModel
    /\ sceneAdds' = sceneAdds + 1
    /\ UNCHANGED <<envVars, mounted, uiVars, errorMessage, probePc, gate,
                   renderer, startVars, countVars>>

\* Mutant of LoadErrorText: the loader's message is dropped.
LoadErrorTextWithoutDetail(message) == <<"Error loading GLTF model: ">>

\* What loader.load's onError callback stores in errorMessage.
LoadErrorText(message) == <<"Error loading GLTF model: ", message>>

\* loader.load's onError callback.
LoadRejected(message) ==
    /\ loadState = "loading"
    /\ loadState' = "failed"
    /\ errorMessage' = LoadErrorText(message)
    /\ UNCHANGED <<envVars, mounted, uiVars, probePc, gate, renderer, model,
                   sceneAdds, startVars, countVars>>

\* ---------------------------------------------------------------- startAR
\* Mutant of StartCatch: the failure is surfaced and the session is requested
\* again.
StartCatchRetries(error) ==
    /\ startPc' = "requestSession"
    /\ errorMessage' = <<"Failed to start AR session: ">> \o ErrorToString(error)
    /\ rafPending' = rafPending
    /\ ctrlRequests' = ctrlRequests + 1

\* The catch block of startAR: the new startPc, errorMessage, rafPending and
\* ctrlRequests.
StartCatch(error) ==
    /\ startPc' = "failed"
    /\ errorMessage' = <<"Failed to start AR session: ">> \o ErrorToString(error)
    /\ rafPending' = rafPending
    /\ ctrlRequests' = ctrlRequests

\* requestSession resolved with a session: renderer.xr.setSession(session),
\* then session.requestReferenceSpace("local") is awaited.
StartSessionResolved ==
    /\ startPc = "requestSession"
    /\ session' = "active"
    /\ xrBound' = TRUE
    /\ startPc' = "refLocal"
    /\ UNCHANGED <<envVars, mounted, uiVars, errorMessage, probePc, gate,
                   effectVars, ctrlRequests, hitTestSource, listeners,
                   rafPending, countVars>>

\* requestSession resolved with nothing: `if (!session) throw ...`.
StartSessionNothing ==
    /\ startPc = "requestSession"
    /\ StartCatch(SessionFailedError)
    /\ UNCHANGED <<envVars, mounted, uiVars, probePc, gate, effectVars,
                   session, xrBound, hitTestSource, listeners, countVars>>

\* Any awaited request of startAR rejects.
StartRejected(error) ==
    /\ startPc \in {"requestSession", "refLocal", "refViewer", "hitTest"}
    /\ StartCatch(error)
    /\ UNCHANGED <<envVars, mounted, uiVars, probePc, gate, effectVars,
                   session, xrBound, hitTestSource, listeners, countVars>>

\* requestReferenceSpace("local") resolved.
StartRefLocalResolved ==
    /\ startPc = "refLocal"
    /\ startPc' = "refViewer"
    /\ UNCHANGED <<envVars, mounted, uiVars, errorMessage, probePc, gate,
                   effectVars, ctrlRequests, session, xrBound, hitTestSource,
                   listeners, rafPending, countVars>>

\* requestReferenceSpace("viewer") resolved; session.requestHitTestSource?.()
\* is awaited.
StartRefViewerResolved ==
    /\ startPc = "refViewer"
    /\ startPc' = "hitTest"
    /\ UNCHANGED <<envVars, mounted, uiVars, errorMessage, probePc, gate,
                   effectVars, ctrlRequests, session, xrBound, hitTestSource,
                   listeners, rafPending, countVars>>

\* Mutant of StartRegister: onXRFrame is scheduled twice.
StartRegisterTwice ==
    /\ listeners' = listeners \cup {"select", "end"}
    /\ rafPending' = rafPending + 2

\* The tail of startAR: both listeners registered, onXRFrame scheduled once.
StartRegister ==
    /\ listeners' = listeners \cup {"select", "end"}
    /\ rafPending' = rafPending + 1

\* `await session.requestHitTestSource?.(...)` resolved: with a source, or with
\* undefined when the session has no such method.
StartHitTestResolved(source) ==
    /\ startPc = "hitTest"
    /\ hitTestSource' = source
    /\ StartRegister
    /\ startPc' = "active"
    /\ UNCHANGED <<envVars, mounted, uiVars, errorMessage, probePc, gate,
                   effectVars, ctrlRequests, session, xrBound, countVars>>

\* -------------------------------------------------------------- listeners
\* Mutant of OnSelect: select toggles the model's visibility.
OnSelectToggles(m) == IF m.loaded THEN [m EXCEPT !.visible = ~@] ELSE m

\* The select listener: `if (model) model.visible = true`.
OnSelect(m) == IF m.loaded THEN [m EXCEPT !.visible = TRUE] ELSE m

\* The session fires select: the listener runs if startAR has registered it
\* (the session is live from the moment requestSession resolves, three awaits
\* before addEventListener).
SelectEvent ==
    /\ session = "active"
    /\ selectCount < MaxSelects
    /\ selectCount' = selectCount + 1
    /\ model' = IF "select" \in listeners THEN OnSelect(model) ELSE model
    /\ UNCHANGED <<envVars, mounted, uiVars, errorMessage, probePc, gate,
                   renderer, loadState, sceneAdds, startVars, cancelCount,
                   endCount, frameCount, renderCount, transformWrites>>

\* Mutant of OnEndCancels: the end listener cancels nothing.
OnEndCancelsNothing(source) == 0

\* The end listener: hitTestSource?.cancel().  Gives how many cancel() calls
\* one end event makes.
OnEndCancels(source) == IF source \in {"active", "cancelled"} THEN 1 ELSE 0

\* The session fires end: when it ends, and possibly again afterwards.
EndEvent ==
    /\ session \in {"active", "ended"}
    /\ endCount < MaxEnds
    /\ endCount' = endCount + 1
    /\ session' = "ended"
    /\ IF "end" \in listeners
       THEN /\ cancelCount' = cancelCount + OnEndCancels(hitTestSource)
            /\ hitTestSource' =
                   IF OnEndCancels(hitTestSource) > 0 THEN "cancelled"
                   ELSE hitTestSource
       ELSE UNCHANGED <<cancelCount, hitTestSource>>
    /\ UNCHANGED <<envVars, mounted, uiVars, errorMessage, probePc, gate,
                   effectVars, startPc, ctrlRequests, xrBound, listeners,
                   rafPending, selectCount, frameCount, renderCount,
                   transformWrites>>

\* ------------------------------------------------------------- onXRFrame
\* Whether onXRFrame writes the model's transform: a viewer pose, a hit-test
\* source, at least one result, a pose for the first one, and a loaded model.
FrameWrites(viewerPose, results, m) ==
    /\ viewerPose
    /\ hitTestSource \notin {"unset", "undefined"}
    /\ Len(results) > 0
    /\ results[1] # NullPose
    /\ m.loaded

\* model.position.set(...) and model.quaternion.set(...), component-wise.
SetTransform(m, hitPose) ==
    [m EXCEPT !.position = <<hitPose.position[1], hitPose.position[2],
                             hitPose.position[3]>>,
              !.quaternion = <<hitPose.orientation[1], hitPose.orientation[2],
                               hitPose.orientation[3], hitPose.orientation[4]>>]

\* Mutant of FrameModel: a frame that does not write a hit pose puts the model
\* back at the origin.
FrameModelResets(viewerPose, results, m) ==
    IF FrameWrites(viewerPose, results, m) THEN SetTransform(m, results[1])
    ELSE IF m.loaded
         THEN [m EXCEPT !.position = <<0, 0, 0>>, !.quaternion = <<0, 0, 0, 1>>]
         ELSE m

\* The model as one onXRFrame invocation leaves it.
FrameModel(viewerPose, results, m) ==
    IF FrameWrites(viewerPose, results, m) THEN SetTransform(m, results[1])
    ELSE m

\* One invocation of the frame callback by the session.
onXRFrame(viewerPose, results) ==
    /\ session = "active"
    /\ rafPending > 0
    /\ frameCount < MaxFrames
    /\ frameCount' = frameCount + 1
    /\ model' = FrameModel(viewerPose, results, model)
    /\ transformWrites' =
           transformWrites + (IF FrameWrites(viewerPose, results, model) THEN 1 ELSE 0)
    /\ renderCount' = renderCount + 1
    /\ rafPending' = (rafPending - 1) + 1
    /\ UNCHANGED <<envVars, mounted, uiVars, errorMessage, probePc, gate,
                   renderer, loadState, sceneAdds, startPc, ctrlRequests,
                   session, xrBound, hitTestSource, listeners, cancelCount,
                   endCount, selectCount>>

\* ---------------------------------------------------------------- unmount
\* The component unmounts: the session effect's cleanup runs if the effect ran.
\* Nothing cancels the pending continuations, the listeners or the frame
\* callback; the state setters they call still update the variables here, and
\* nothing renders them any more (every ...Shown predicate needs mounted).
Unmount ==
    /\ mounted
    /\ mounted' = FALSE
    /\ renderer' = IF renderer = "attached" THEN "disposed" ELSE renderer
    /\ UNCHANGED <<envVars, uiVars, errorMessage, probePc, gate, loadState,
                   model, sceneAdds, startVars, countVars>>

\* ------------------------------------------------------------------ system
Next ==
    \/ ProbeResolved
    \/ ClickGrantPermissions
    \/ \E i \in 1..MaxInvocations, n \in 1..MaxTracks : GateMediaResolved(i, n)
    \/ \E i \in 1..MaxInvocations, e \in MediaErrors : GateMediaRejected(i, e)
    \/ \E i \in 1..MaxInvocations : GateSessionResolved(i)
    \/ \E i \in 1..MaxInvocations, nothing \in Nothings :
           GateSessionNothing(i, nothing)
    \/ \E i \in 1..MaxInvocations, e \in XRErrors : GateSessionRejected(i, e)
    \/ CloseError
    \/ ClickStartAR
    \/ LoadResolved
    \/ \E m \in LoadErrorMessages : LoadRejected(m)
    \/ StartSessionResolved
    \/ StartSessionNothing
    \/ \E e \in XRErrors : StartRejected(e)
    \/ StartRefLocalResolved
    \/ StartRefViewerResolved
    \/ \E source \in {"active", "undefined"} : StartHitTestResolved(source)
    \/ SelectEvent
    \/ EndEvent
    \/ \E viewerPose \in BOOLEAN, results \in HitResultLists :
           onXRFrame(viewerPose, results)
    \/ Unmount

Spec == Init /\ [][Next]_vars

\* ================================================================ claims
\* Session requests issued by requestPermissions invocations.
GateRequests ==
    LET Sum[i \in 0..MaxInvocations] ==
            IF i = 0 THEN 0 ELSE Sum[i - 1] + gate[i].requests
    IN  Sum[MaxInvocations]

\* Sessions acquired by requestPermissions invocations and not ended.
GateLiveSessions ==
    LET Sum[i \in 0..MaxInvocations] ==
            IF i = 0 THEN 0 ELSE Sum[i - 1] + (gate[i].sessions - gate[i].ended)
    IN  Sum[MaxInvocations]

\* Camera tracks acquired by requestPermissions invocations and not stopped.
GateLiveTracks ==
    LET Sum[i \in 0..MaxInvocations] ==
            IF i = 0 THEN 0 ELSE Sum[i - 1] + gate[i].liveTracks
    IN  Sum[MaxInvocations]

\* Sessions of the component that are acquired and not ended.
ActiveSessions == (IF session = "active" THEN 1 ELSE 0) + GateLiveSessions

\* Hit-test sources acquired and not cancelled.
ActiveHitTestSources == IF hitTestSource = "active" THEN 1 ELSE 0

\* C1: on a mount whose capability query resolves false, or without
\* navigator.xr, no state shows a "Grant Permissions" or a "Start AR" control,
\* and neither requestPermissions nor startAR has issued a session request.
C1_UnsupportedShowsNoControls ==
    (~navigatorXR \/ ~xrSupported) =>
        /\ ~GrantPermissionsShown
        /\ ~StartARButtonShown
        /\ GateRequests = 0
        /\ ctrlRequests = 0

\* C2: the three phases are ordered: permissionGranted is true, and a
\* requestPermissions invocation is complete, only once the probe's result is
\* stored; startAR has requested a session only if permissionGranted is true.
C2_PhasesOrdered ==
    /\ permissionGranted => probePc = "done"
    /\ \A i \in 1..MaxInvocations : gate[i].pc = "done" => probePc = "done"
    /\ ctrlRequests > 0 => permissionGranted

\* C3: at most one session of the component is active and at most one hit-test
\* source is active, the throwaway sessions of requestPermissions included;
\* startAR requests a session at most once per mount.
C3_AtMostOneSessionAndSource ==
    /\ ctrlRequests <= 1
    /\ ActiveSessions <= 1
    /\ ActiveHitTestSources <= 1

\* C3 witness: a throwaway session was acquired and ended, and the session of
\* startAR and its hit-test source are active.
C3_Witness ==
    /\ \A i \in 1..MaxInvocations : gate[i].sessions = 1 /\ gate[i].ended = 1
    /\ session = "active"
    /\ hitTestSource = "active"

\* What a failed requestPermissions step does with failure `error`.
GateFailureEffect(error) ==
    /\ errorMessage' # Null
    /\ Contains(errorMessage', ErrorToString(error))
    /\ UNCHANGED <<permissionGranted, showPermissionPopup, sessionStarted>>
    /\ GrantPermissionsShown' = GrantPermissionsShown

\* C4: when requestPermissions fails at either step, errorMessage holds a text
\* with the failure detail, permissionGranted, showPermissionPopup and
\* sessionStarted are unchanged, and the Grant Permissions control stays as it
\* was, so the gate can be invoked again.  The same holds when the camera
\* request cannot even be made (no navigator.mediaDevices).  Every failing
\* step of requestPermissions leaves its invocation failed, so only the steps
\* in which an invocation turns failed need looking at.
C4_GateFailureKeepsState ==
    [][\A i \in 1..MaxInvocations :
          (gate[i].pc # "failed" /\ gate'[i].pc = "failed") =>
              /\ (~mediaDevices /\ ClickGrantPermissions) =>
                     GateFailureEffect(NoMediaDevicesTypeError)
              /\ \A e \in MediaErrors :
                     GateMediaRejected(i, e) => GateFailureEffect(e)
              /\ \A e \in XRErrors :
                     GateSessionRejected(i, e) => GateFailureEffect(e)
              /\ \A nothing \in Nothings :
                     GateSessionNothing(i, nothing) =>
                         GateFailureEffect(NoSessionTypeError(nothing))]_vars

\* C4 witness: one invocation failed at getUserMedia and another at the session
\* request, the error is shown and the Grant Permissions control is still there.
C4_Witness ==
    /\ \E i, j \in 1..MaxInvocations :
           /\ gate[i].pc = "failed" /\ gate[i].streams = 0
           /\ gate[j].pc = "failed" /\ gate[j].requests = 1
    /\ errorMessage # Null
    /\ ~permissionGranted
    /\ GrantPermissionsShown

\* C5: every invocation of requestPermissions acquires at most one camera
\* stream, leaves none of its tracks live and none of its sessions active,
\* whatever the number and outcome of the invocations; and permissionGranted,
\* once true, stays true, so it turns true at most once.
C5_GateIdempotent ==
    /\ [](\A i \in 1..MaxInvocations :
             /\ gate[i].streams <= 1
             /\ gate[i].liveTracks = 0
             /\ gate[i].sessions <= 1
             /\ gate[i].ended = gate[i].sessions)
    /\ [](GateLiveTracks = 0 /\ GateLiveSessions = 0)
    /\ [][permissionGranted => permissionGranted']_vars

\* C5 witness: every invocation has completed, a failed one was followed by a
\* retry that acquired a stream and a session and granted the permission.
C5_Witness ==
    /\ \A i \in 1..MaxInvocations : gate[i].pc \in {"done", "failed"}
    /\ \E i, j \in 1..MaxInvocations :
           /\ i < j
           /\ gate[i].pc = "failed"
           /\ gate[j].pc = "done" /\ gate[j].streams = 1 /\ gate[j].sessions = 1
    /\ permissionGranted

\* C6: a frame callback writes the model's position and orientation only if
\* the frame has a hit-test result, a viewer pose, a hit-test source and a
\* loaded model; a frame without a hit-test result leaves both exactly as
\* they were.
C6_TransformOnlyOnHit ==
    [][/\ (frameCount' # frameCount
            /\ (transformWrites' # transformWrites \/ model' # model)) =>
              \A viewerPose \in BOOLEAN, results \in HitResultLists :
                  onXRFrame(viewerPose, results) =>
                      /\ Len(results) > 0
                      /\ viewerPose
                      /\ hitTestSource = "active"
                      /\ model.loaded
       /\ (\E viewerPose \in BOOLEAN : onXRFrame(viewerPose, <<>>)) =>
              /\ model'.position = model.position
              /\ model'.quaternion = model.quaternion
              /\ transformWrites' = transformWrites]_vars

\* C6 witness: of the frames that ran, one wrote a hit pose to the model and
\* one did not, and the model holds a hit pose.
C6_Witness ==
    /\ transformWrites >= 1
    /\ frameCount > transformWrites
    /\ model.loaded
    /\ \E p \in HitPoses :
           model.position = p.position /\ model.quaternion = p.orientation

\* C7 as stated: once a select event has fired, the model is visible, for
\* every ordering of the asset load and the first select.
C7_VisibleAfterFirstSelect ==
    selectCount > 0 => (model.loaded /\ model.visible)

\* C7 as amended: a select event that fires when the model has loaded and the
\* select listener is registered makes the model visible, and a visible model
\* stays visible under every later step; a select event that fires before the
\* load has completed or before the listener is registered changes nothing of
\* the model; the load's completion adds the model hidden; and the model is
\* visible only if a select event has fired.
C7_VisibleAfterSelectOnLoadedModel ==
    /\ [][/\ (/\ selectCount' # selectCount
               /\ model.loaded
               /\ "select" \in listeners) => model'.visible
          /\ model.visible => model'.visible
          /\ (/\ selectCount' # selectCount
              /\ (~model.loaded \/ "select" \notin listeners)) =>
                 model' = model
          /\ (~model.loaded /\ model'.loaded) =>
                 (~model'.visible /\ sceneAdds' = sceneAdds + 1)]_vars
    /\ [](model.visible =>
              (model.loaded /\ selectCount > 0 /\ "select" \in listeners))

\* C7 witness: select fired repeatedly, the listener is registered, frames
\* ran, and the loaded model is visible.
C7_Witness ==
    /\ selectCount = MaxSelects
    /\ frameCount >= 1
    /\ model.loaded
    /\ model.visible
    /\ "select" \in listeners

\* C8: once the end listener has cancelled the hit-test source, cancel() has
\* been invoked exactly once, however many end events have fired.
C8_CancelledExactlyOnce ==
    (endCount >= 1 /\ hitTestSource = "cancelled") => cancelCount = 1

\* C9: a failed asset load stores a text with the loader's message in
\* errorMessage and leaves the scene without a model for good; the session has
\* been requested, its negotiation is untouched by the failure, and every frame
\* that runs afterwards renders, re-schedules itself and writes no transform.
C9_LoadFailureKeepsSession ==
    /\ [][\A m \in LoadErrorMessages :
              LoadRejected(m) =>
                  /\ Contains(errorMessage', <<m>>)
                  /\ UNCHANGED <<startVars, model, sceneAdds>>]_vars
    /\ [](loadState = "failed" =>
              /\ ~model.loaded
              /\ sceneAdds = 0
              /\ transformWrites = 0
              /\ ctrlRequests = 1)
    /\ [][(loadState = "failed" /\ frameCount' # frameCount) =>
              /\ renderCount' = renderCount + 1
              /\ rafPending' >= 1
              /\ model' = model
              /\ transformWrites' = transformWrites]_vars

\* C9 witness: the load failed, its text is in errorMessage, the session is
\* bound to the renderer and frames with hit-test results have run.
C9_Witness ==
    /\ loadState = "failed"
    /\ \E m \in LoadErrorMessages : errorMessage = LoadErrorText(m)
    /\ xrBound
    /\ hitTestSource = "active"
    /\ frameCount = MaxFrames
    /\ renderCount = MaxFrames
    /\ rafPending = 1

\* What a failed startAR step does with failure `error`.
StartFailureEffect(error) ==
    /\ errorMessage' # Null
    /\ Contains(errorMessage', ErrorToString(error))
    /\ startPc' = "failed"
    /\ rafPending' = 0
    /\ ctrlRequests' = ctrlRequests

\* C10: when startAR finds no navigator.xr, or one of its requests rejects or
\* resolves with nothing, errorMessage is set, no frame callback or listener
\* is registered, and startAR never requests a session again.
C10_StartFailureAborts ==
    /\ [][/\ \A e \in XRErrors : StartRejected(e) => StartFailureEffect(e)
          /\ StartSessionNothing => StartFailureEffect(SessionFailedError)]_vars
    /\ [](startPc = "failed" =>
              rafPending = 0 /\ listeners = {} /\ frameCount = 0)
    /\ [][startPc = "failed" =>
              startPc' = "failed" /\ ctrlRequests' = ctrlRequests]_vars

\* C10 witness: startAR failed after its session was acquired, the failure is
\* shown, no callback is registered and a later step has been taken.
C10_Witness ==
    /\ startPc = "failed"
    /\ session # "none"
    /\ \E e \in XRErrors :
           errorMessage = <<"Failed to start AR session: ">> \o ErrorToString(e)
    /\ rafPending = 0
    /\ ~mounted

\* requestPermissions invocations awaiting getUserMedia or requestSession.
PendingInvocations ==
    Cardinality({i \in 1..MaxInvocations :
                    gate[i].pc \in {"getUserMedia", "requestSession"}})

\* startAR is between its session request and its last await.
StartARPending ==
    startPc \in {"requestSession", "refLocal", "refViewer", "hitTest"}

\* C11: after startAR has failed, and without a remount, the user has a
\* control whose click leads to a new immersive-ar session request: the
\* "Start AR" button or a "Grant Permissions" button.
C11_StartRetriggerable ==
    (startPc = "failed" /\ mounted) =>
        (StartARButtonShown \/ GrantPermissionsShown)

\* C12: no two asynchronous operations of the component are in flight
\* together: at most one requestPermissions invocation is pending, and none is
\* pending while startAR is.
C12_OperationsSerialized ==
    /\ PendingInvocations <= 1
    /\ StartARPending => PendingInvocations = 0

\* C13: the session's end event is terminal: it cancels the active hit-test
\* source, and after it startAR requests no session; over one mount startAR
\* requests a session at most once, and only in the step of a click on
\* "Start AR".
C13_EndTerminal ==
    /\ [](ctrlRequests <= 1)
    /\ [][ctrlRequests' # ctrlRequests => ClickStartAR]_vars
    /\ [][(endCount' # endCount /\ hitTestSource = "active") =>
              hitTestSource' = "cancelled"]_vars
    /\ [][endCount >= 1 => ctrlRequests' = ctrlRequests]_vars

\* C13 witness: the session ran and ended, its hit-test source is cancelled,
\* the component is still mounted and shows no "Start AR" button.
C13_Witness ==
    /\ endCount >= 1
    /\ startPc = "active"
    /\ hitTestSource = "cancelled"
    /\ ctrlRequests = 1
    /\ frameCount >= 1
    /\ mounted
    /\ ~StartARButtonShown

\* C14: once the unmount cleanup has disposed the renderer, no onXRFrame
\* invocation runs, renders or re-schedules itself.
C14_NoFrameAfterUnmount ==
    [][renderer = "disposed" =>
           /\ frameCount' = frameCount
           /\ renderCount' = renderCount]_vars

\* C15: when the component has unmounted while startAR's session request is
\* pending, the completion of that request is ignored: the continuation does
\* not bind the session to the renderer (the first thing it would do, before
\* any listener, hit-test source or frame callback).
C15_LateCompletionIgnored ==
    [][(~mounted /\ startPc = "requestSession") =>
           /\ xrBound' = xrBound
           /\ startPc' \in {"requestSession", "failed"}]_vars

\* C16: within one mount the lifecycle flags never regress: arSupported
\* changes only in the probe's step and never after the probe is done;
\* permissionGranted and sessionStarted, once true, stay true; sessionStarted
\* changes only in the step of a click on "Start AR", permissionGranted only in
\* the completing step of a requestPermissions invocation the user clicked.
C16_LifecycleNeverRegresses ==
    [][/\ permissionGranted => permissionGranted'
       /\ sessionStarted => sessionStarted'
       /\ arSupported' # arSupported => ProbeResolved
       /\ probePc = "done" => arSupported' = arSupported
       /\ sessionStarted' # sessionStarted => ClickStartAR
       /\ permissionGranted' # permissionGranted =>
              \E i \in 1..MaxInvocations :
                  /\ gate[i].pc \in {"getUserMedia", "requestSession"}
                  /\ gate'[i].pc = "done"]_vars

\* C16 witness: permission granted, session started and ended, a later
\* requestPermissions invocation failed, its error was dismissed, and the
\* flags are still set.
C16_Witness ==
    /\ arSupported /\ permissionGranted /\ sessionStarted
    /\ probePc = "done"
    /\ endCount >= 1
    /\ \E i \in 1..MaxInvocations : gate[i].pc = "failed"
    /\ errorMessage = Null

\* C17: whenever the asset load completes relative to the session, the model
\* is added to the scene exactly once, hidden and scaled, in the step of the
\* load's completion; frames and select events before that leave model and
\* scene untouched and the frames still render and re-schedule; a frame after
\* it with a viewer pose, a hit-test source and a hit pose writes that pose.
C17_LoadInterleavings ==
    /\ [](/\ sceneAdds <= 1
          /\ model.loaded <=> (loadState = "loaded")
          /\ model.loaded <=> (sceneAdds = 1))
    /\ [][loadState' # loadState /\ loadState' = "loaded" =>
              /\ model'.loaded
              /\ ~model'.visible
              /\ model'.scale = <<ScaleTenths, ScaleTenths, ScaleTenths>>
              /\ sceneAdds' = sceneAdds + 1]_vars
    /\ [][(~model.loaded
           /\ (frameCount' # frameCount \/ selectCount' # selectCount)) =>
              /\ model' = model
              /\ sceneAdds' = sceneAdds
              /\ loadState' = loadState
              /\ frameCount' # frameCount =>
                     renderCount' = renderCount + 1 /\ rafPending' >= 1]_vars
    /\ [][(frameCount' # frameCount /\ model.loaded
           /\ hitTestSource = "active") =>
              \A results \in HitResultLists :
                  (/\ Len(results) > 0
                   /\ results[1] \in HitPoses
                   /\ onXRFrame(TRUE, results)) =>
                      /\ model'.position = results[1].position
                      /\ model'.quaternion = results[1].orientation
                      /\ model'.visible = model.visible
                      /\ model'.scale = model.scale]_vars

\* C17 witness: every select event fired before the load completed or before
\* the listener was registered, so the model is still hidden, and a frame
\* after the load wrote a hit pose to it.
C17_Witness ==
    /\ selectCount = MaxSelects
    /\ model.loaded
    /\ ~model.visible
    /\ sceneAdds = 1
    /\ transformWrites >= 1
    /\ \E p \in HitPoses :
           model.position = p.position /\ model.quaternion = p.orientation

\* C18 as stated: a requestPermissions invocation has issued its throwaway
\* session request if and only if arSupported was true when it was invoked.
C18_RequestIffSupportedAtInvocation ==
    \A i \in 1..MaxInvocations :
        gate[i].pc \in {"done", "failed"} =>
            (gate[i].requests >= 1 <=> gate[i].arSupported)

\* C18 as amended: an invocation issues its throwaway session request if and
\* only if arSupported was true when it was invoked and getUserMedia resolved;
\* invoked with arSupported false, a resolved camera request sets
\* permissionGranted and hides the pop-up with no session request made.
C18_RequestIffSupportedAndCameraResolved ==
    /\ [][\A i \in 1..MaxInvocations :
              (gate[i].pc = "idle" /\ gate'[i].pc # "idle") =>
                  gate'[i].arSupported = arSupported]_vars
    /\ [](\A i \in 1..MaxInvocations :
              gate[i].requests =
                  (IF gate[i].arSupported /\ gate[i].streams = 1 THEN 1 ELSE 0))
    /\ [][\A i \in 1..MaxInvocations :
              (/\ gate[i].pc = "getUserMedia"
               /\ gate'[i].streams = 1
               /\ ~gate[i].arSupported) =>
                  /\ gate'[i].pc = "done"
                  /\ gate'[i].requests = 0
                  /\ permissionGranted'
                  /\ ~showPermissionPopup']_vars

\* C18 witness: an invocation started before the probe resolved has completed
\* after the probe stored true, and made no session request.
C18_Witness ==
    /\ arSupported
    /\ \E i \in 1..MaxInvocations :
           /\ gate[i].pc = "done"
           /\ ~gate[i].arSupported
           /\ gate[i].requests = 0
    /\ GateRequests = 0
    /\ permissionGranted
    /\ ~showPermissionPopup

\* C19: at most one frame callback is pending: startAR schedules onXRFrame
\* once, in the step that follows the hit-test source request, with both
\* listeners registered; every onXRFrame invocation renders and leaves exactly
\* one successor pending.
C19_OneFrameCallbackPending ==
    /\ [](rafPending <= 1)
    /\ [](rafPending = 1 =>
              /\ startPc = "active"
              /\ listeners = {"select", "end"}
              /\ hitTestSource # "unset")
    /\ [][rafPending' # rafPending =>
              /\ startPc = "hitTest" /\ startPc' = "active"
              /\ rafPending = 0 /\ rafPending' = 1]_vars
    /\ [][frameCount' # frameCount =>
              /\ rafPending = 1 /\ rafPending' = 1
              /\ renderCount' = renderCount + 1]_vars

\* C19 witness: frames ran on both branches, with a transform written and
\* without, and one callback is pending.
C19_Witness ==
    /\ frameCount = MaxFrames
    /\ renderCount = MaxFrames
    /\ transformWrites = 1
    /\ rafPending = 1
    /\ session = "active"

====
